---- MODULE Spec2Model ----
(***************************************************************************)
(* Model of jdiff.py, the Python port of JojoDiff's diff tool: the         *)
(* PatchWriter (length encoding, data-byte escaping, instruction framing)  *)
(* and generate_patch (translation of an edit script into writer calls).   *)
(*                                                                         *)
(* Python integers are unbounded; a length is modelled as the tuple of its *)
(* nine base-256 digits, most significant first (72 bits), so that the     *)
(* 32-bit and 64-bit tiers of _put_len are computed without overflow.      *)
(***************************************************************************)
EXTENDS Integers, Sequences, FiniteSets, TLC

VARIABLES
  orig,      \* generate_patch: the original bytes
  new,       \* generate_patch: the new bytes
  i,         \* generate_patch: end of the last run on the orig axis
  j,         \* generate_patch: end of the last run on the new axis
  pw,        \* the PatchWriter of the pass
  pc,        \* position of the pass
  runs,      \* opcodes consumed so far, each with the calls made before it
  writers,   \* SpecWriter: two PatchWriter instances
  tested,    \* SpecLen: the length under test; SpecByte: the data byte
  decoded,   \* SpecLen: what the length decoder read back
  sink       \* the file object behind pw.f: "open" or "closed"

vars == <<orig, new, i, j, pw, pc, runs, writers, tested, decoded, sink>>

\* ------------------------------------------------------------------------
\* control codes (jdiff.py lines 28-34)
ESC == 167
MOD == 166
INS == 165
DEL == 164
EQL == 163
BKT == 162

\* ------------------------------------------------------------------------
\* bounds of the model
MaxLen == 2       \* longest orig / new byte sequence
MaxRuns == 2      \* most runs the edit-script source supplies in one pass
MaxCalls == 3     \* most writer calls in one behaviour of SpecWriter
MaxSmall == 40    \* lengths 0..MaxSmall are all tried by SpecLen

\* bytes of orig and new tried by Spec: an ordinary byte and ESC itself
DataBytes == {65, ESC}

\* data bytes tried by SpecWriter: also both ends of the marker range
WriterBytes == {65, BKT, MOD, ESC}

\* ------------------------------------------------------------------------
\* Python int as nine base-256 digits, big-endian
Wide(n) ==
  <<0, 0, 0, 0, 0, (n \div 16777216) % 256, (n \div 65536) % 256,
    (n \div 256) % 256, n % 256>>

\* the value of the low three digits (an int below 2^24)
Low24(x) == x[7] * 65536 + x[8] * 256 + x[9]

\* all digits above the k lowest ones are zero, i.e. x < 256^k
FitsIn(x, k) == \A d \in 1..(9 - k) : x[d] = 0

\* x <= c for a constant c < 2^24
WideLeq(x, c) == FitsIn(x, 3) /\ Low24(x) <= c

\* ------------------------------------------------------------------------
\* PatchWriter: f is the content of the sink, _out_esc the escape flag,
\* exc the exception a call has raised ("none" while none has), log the
\* writer calls made so far (op, argument, sink length and flag at entry).
PatchWriter ==
  [f |-> <<>>, _out_esc |-> FALSE, exc |-> "none", log |-> <<>>]

\* self.f.write(bytes(bs))
FWrite(w, bs) == [w EXCEPT !.f = @ \o bs]

Logged(w, op, arg) ==
  [w EXCEPT !.log = Append(@, [op |-> op, arg |-> arg, at |-> Len(w.f),
                               esc |-> w._out_esc])]

\* _put_len with the first tier one too wide (length <= 253)
_put_len_wide_first_tier(w, length) ==
  IF WideLeq(length, 253)
    THEN IF Low24(length) - 1 < 0
           THEN [w EXCEPT !.exc = "ValueError"]
           ELSE FWrite(w, <<Low24(length) - 1>>)
  ELSE IF WideLeq(length, 508)
    THEN FWrite(w, <<252, Low24(length) - 253>>)
  ELSE IF FitsIn(length, 2)
    THEN FWrite(w, <<253, length[8], length[9]>>)
  ELSE IF FitsIn(length, 4)
    THEN FWrite(w, <<254, length[6], length[7], length[8], length[9]>>)
  ELSE IF length[1] # 0
    THEN [w EXCEPT !.exc = "OverflowError"]
    ELSE FWrite(w, <<255>> \o SubSeq(length, 2, 9))

\* _put_len with the 64-bit tier written least significant byte first
_put_len_little_endian(w, length) ==
  IF WideLeq(length, 252)
    THEN IF Low24(length) - 1 < 0
           THEN [w EXCEPT !.exc = "ValueError"]
           ELSE FWrite(w, <<Low24(length) - 1>>)
  ELSE IF WideLeq(length, 508)
    THEN FWrite(w, <<252, Low24(length) - 253>>)
  ELSE IF FitsIn(length, 2)
    THEN FWrite(w, <<253, length[8], length[9]>>)
  ELSE IF FitsIn(length, 4)
    THEN FWrite(w, <<254, length[6], length[7], length[8], length[9]>>)
  ELSE IF length[1] # 0
    THEN [w EXCEPT !.exc = "OverflowError"]
    ELSE FWrite(w, <<255>> \o [d \in 1..8 |-> length[10 - d]])

_put_len(w, length) ==
  IF WideLeq(length, 252)
    THEN IF Low24(length) - 1 < 0
           THEN [w EXCEPT !.exc = "ValueError"]   \* bytes([-1])
           ELSE FWrite(w, <<Low24(length) - 1>>)
  ELSE IF WideLeq(length, 508)
    THEN FWrite(w, <<252, Low24(length) - 253>>)
  ELSE IF FitsIn(length, 2)
    THEN FWrite(w, <<253, length[8], length[9]>>)
  ELSE IF FitsIn(length, 4)
    THEN FWrite(w, <<254, length[6], length[7], length[8], length[9]>>)
  ELSE IF length[1] # 0
    THEN [w EXCEPT !.exc = "OverflowError"]       \* to_bytes(8, "big")
    ELSE FWrite(w, <<255>> \o SubSeq(length, 2, 9))

_put_esc(w) == FWrite(w, <<ESC>>)

\* _put_byte with the marker range taken without its lower end (BKT < b)
_put_byte_narrow_range(w, b) ==
  LET w1 == IF w._out_esc
              THEN LET c == [w EXCEPT !._out_esc = FALSE]
                       e == IF BKT < b /\ b <= ESC THEN FWrite(c, <<ESC>>) ELSE c
                   IN FWrite(e, <<ESC>>)
              ELSE w
  IN IF b = ESC
       THEN [w1 EXCEPT !._out_esc = TRUE]
       ELSE FWrite(w1, <<b>>)

\* _put_byte that never clears the flag once it is set
_put_byte_sticky_flag(w, b) ==
  LET w1 == IF w._out_esc
              THEN LET e == IF BKT <= b /\ b <= ESC THEN FWrite(w, <<ESC>>) ELSE w
                   IN FWrite(e, <<ESC>>)
              ELSE w
  IN IF b = ESC
       THEN [w1 EXCEPT !._out_esc = TRUE]
       ELSE FWrite(w1, <<b>>)

_put_byte(w, b) ==
  LET w1 == IF w._out_esc
              THEN LET c == [w EXCEPT !._out_esc = FALSE]
                       e == IF BKT <= b /\ b <= ESC THEN FWrite(c, <<ESC>>) ELSE c
                   IN FWrite(e, <<ESC>>)
              ELSE w
  IN IF b = ESC
       THEN [w1 EXCEPT !._out_esc = TRUE]
       ELSE FWrite(w1, <<b>>)

\* write_eql with the marker of write_del
write_eql_del_marker(w, length) ==
  _put_len(FWrite(_put_esc(Logged(w, EQL, length)), <<DEL>>), length)

write_eql(w, length) ==
  _put_len(FWrite(_put_esc(Logged(w, EQL, length)), <<EQL>>), length)

\* write_del resolving (clearing) a pending literal ESC
write_del_clears_flag(w, length) ==
  _put_len(FWrite(_put_esc([Logged(w, DEL, length) EXCEPT !._out_esc = FALSE]),
                  <<DEL>>), length)

write_del(w, length) ==
  _put_len(FWrite(_put_esc(Logged(w, DEL, length)), <<DEL>>), length)

write_mod_byte(w, b) ==
  _put_byte(FWrite(_put_esc(Logged(w, MOD, b)), <<MOD>>), b)

\* write_ins_byte without its leading _put_esc
write_ins_byte_no_esc(w, b) ==
  _put_byte(FWrite(Logged(w, INS, b), <<INS>>), b)

write_ins_byte(w, b) ==
  _put_byte(FWrite(_put_esc(Logged(w, INS, b)), <<INS>>), b)

\* ------------------------------------------------------------------------
\* generate_patch (lines 108-136): one iteration of the for loop, for the
\* opcode op = (tag, i1, i2, j1, j2).  Slice(s, a, b) is s[a:b].
Slice(s, a, b) == SubSeq(s, a + 1, b)

RECURSIVE ForEach_reversed(_, _, _)
\* the byte loop walking the slice from its last byte to its first
ForEach_reversed(writer, bs, isMod) ==
  IF bs = <<>> THEN writer
  ELSE ForEach_reversed(IF isMod THEN write_mod_byte(writer, bs[Len(bs)])
                                 ELSE write_ins_byte(writer, bs[Len(bs)]),
                        SubSeq(bs, 1, Len(bs) - 1), isMod)

RECURSIVE ForEach(_, _, _)
\* for b in bs: writer.<Op>(b)
ForEach(writer, bs, isMod) ==
  IF bs = <<>> THEN writer
  ELSE ForEach(IF isMod THEN write_mod_byte(writer, Head(bs))
                        ELSE write_ins_byte(writer, Head(bs)),
               Tail(bs), isMod)

\* the equal branch without its length > 0 guard
equal_branch_unguarded(writer, op) ==
  write_eql(writer, Wide(op.i2 - op.i1))

\* tag == "equal" (lines 113-116)
equal_branch(writer, op) ==
  LET len == op.i2 - op.i1
  IN IF len > 0 THEN write_eql(writer, Wide(len)) ELSE writer

\* the delete branch without its length > 0 guard
delete_branch_unguarded(writer, op) ==
  write_del(writer, Wide(op.i2 - op.i1))

\* tag == "delete" (lines 117-120)
delete_branch(writer, op) ==
  LET len == op.i2 - op.i1
  IN IF len > 0 THEN write_del(writer, Wide(len)) ELSE writer

\* tag == "insert" (lines 121-123)
insert_branch(n, writer, op) ==
  ForEach(writer, Slice(n, op.j1, op.j2), FALSE)

\* the replace branch choosing MOD whenever there is something to delete
replace_branch_mod_any(n, writer, op) ==
  LET dels == op.i2 - op.i1
      ins_bytes == Slice(n, op.j1, op.j2)
  IN IF dels > 0
       THEN ForEach(writer, ins_bytes, TRUE)
       ELSE ForEach(writer, ins_bytes, FALSE)

\* the replace branch forgetting the DEL of an unequal replacement
replace_branch_no_del(n, writer, op) ==
  LET dels == op.i2 - op.i1
      ins_bytes == Slice(n, op.j1, op.j2)
  IN IF dels = Len(ins_bytes) /\ dels > 0
       THEN ForEach(writer, ins_bytes, TRUE)
       ELSE ForEach(writer, ins_bytes, FALSE)

\* tag == "replace" (lines 124-136)
replace_branch(n, writer, op) ==
  LET dels == op.i2 - op.i1
      ins_bytes == Slice(n, op.j1, op.j2)
  IN IF dels = Len(ins_bytes) /\ dels > 0
       THEN ForEach(writer, ins_bytes, TRUE)
       ELSE ForEach(IF dels > 0 THEN write_del(writer, Wide(dels)) ELSE writer,
                    ins_bytes, FALSE)

generate_patch(o, n, writer, op) ==
  IF op.tag = "equal" THEN equal_branch(writer, op)
  ELSE IF op.tag = "delete" THEN delete_branch(writer, op)
  ELSE IF op.tag = "insert" THEN insert_branch(n, writer, op)
  ELSE IF op.tag = "replace" THEN replace_branch(n, writer, op)
  ELSE writer

\* ------------------------------------------------------------------------
\* The decode direction (the companion jpatch.py), from the format: the
\* inverse of the length tiers, of the data-byte escaping and of the
\* instruction framing.  A result is ok or a framing error.
Zeros(k) == [d \in 1..k |-> 0]

LenError == [ok |-> FALSE, val |-> Wide(0), next |-> 0]

DecodeLen(p, pos) ==
  IF pos > Len(p) THEN LenError
  ELSE LET c == p[pos]
           need == IF c <= 251 THEN 0
                   ELSE IF c = 252 THEN 1
                   ELSE IF c = 253 THEN 2
                   ELSE IF c = 254 THEN 4 ELSE 8
           val == IF c <= 251 THEN Wide(c + 1)
                  ELSE IF c = 252 THEN Wide(253 + p[pos + 1])
                  ELSE Zeros(9 - need) \o SubSeq(p, pos + 1, pos + need)
       IN IF pos + need > Len(p)
            THEN LenError                                   \* MalformedLength
            ELSE [ok |-> TRUE, val |-> val, next |-> pos + need + 1]

ByteError == [ok |-> FALSE, val |-> 0, next |-> 0]

\* the operand of an Insert / Mod instruction: one data byte, a literal ESC
\* being the doubled-ESC pattern
DecodeByte(p, pos) ==
  IF pos > Len(p) THEN ByteError                            \* TruncatedOperand
  ELSE IF p[pos] # ESC THEN [ok |-> TRUE, val |-> p[pos], next |-> pos + 1]
  ELSE IF pos + 1 <= Len(p) /\ p[pos + 1] = ESC
    THEN [ok |-> TRUE, val |-> ESC, next |-> pos + 2]
    ELSE ByteError                        \* dangling ESC: TruncatedOperand

DecodeError == [ok |-> FALSE, out |-> <<>>]

RECURSIVE DecodeFrom(_, _, _, _, _)
DecodeFrom(o, p, pos, cur, out) ==
  IF pos > Len(p) THEN [ok |-> TRUE, out |-> out]
  ELSE IF p[pos] # ESC \/ pos + 1 > Len(p) THEN DecodeError  \* UnexpectedMarker
  ELSE LET m == p[pos + 1] IN
    IF m = EQL \/ m = DEL THEN
      LET l == DecodeLen(p, pos + 2)
          n == Low24(l.val)
      IN IF ~l.ok THEN DecodeError
         ELSE IF ~FitsIn(l.val, 3) \/ cur + n > Len(o)
           THEN DecodeError                                 \* CursorOverrun
           ELSE DecodeFrom(o, p, l.next, cur + n,
                           IF m = EQL THEN out \o SubSeq(o, cur + 1, cur + n)
                                      ELSE out)
    ELSE IF m = INS \/ m = MOD THEN
      LET d == DecodeByte(p, pos + 2)
      IN IF ~d.ok THEN DecodeError
         ELSE IF m = MOD /\ cur + 1 > Len(o) THEN DecodeError \* CursorOverrun
         ELSE DecodeFrom(o, p, d.next, IF m = MOD THEN cur + 1 ELSE cur,
                         Append(out, d.val))
    ELSE IF m = BKT THEN DecodeFrom(o, p, pos + 2, cur, out)  \* tolerated
    ELSE DecodeError                                        \* UnexpectedMarker

Decode(o, p) == DecodeFrom(o, p, 1, 0, <<>>)

\* ------------------------------------------------------------------------
\* The edit-script source (SequenceMatcher.get_opcodes, external): any
\* sequence of runs that partitions both axes monotonically.  An equal run
\* covers equal content; a delete run has no new bytes, an insert run no
\* original bytes.  Empty runs are allowed: the loop body guards for them.
ValidRun(tag, i1, i2, j1, j2) ==
  /\ i1 <= i2 /\ i2 <= Len(orig)
  /\ j1 <= j2 /\ j2 <= Len(new)
  /\ tag = "equal" => i2 - i1 = j2 - j1 /\ Slice(orig, i1, i2) = Slice(new, j1, j2)
  /\ tag = "delete" => j2 = j1
  /\ tag = "insert" => i2 = i1

BSeq(n) == UNION {[1..k -> DataBytes] : k \in 0..n}

NoWriters == <<>>
NoLength == Wide(0)
NoDecoded == [ok |-> FALSE, val |-> Wide(0), next |-> 0]

\* main, lines 151-159: both files read, the writer constructed
Init ==
  /\ orig \in BSeq(MaxLen)
  /\ new \in BSeq(MaxLen)
  /\ i = 0 /\ j = 0
  /\ pw = PatchWriter
  /\ pc = "loop"
  /\ runs = <<>>
  /\ sink = "open"
  /\ writers = NoWriters /\ tested = NoLength /\ decoded = NoDecoded

Step(tag, i2, j2) ==
  /\ pc = "loop"
  /\ Len(runs) < MaxRuns
  /\ ValidRun(tag, i, i2, j, j2)
  /\ LET op == [tag |-> tag, i1 |-> i, i2 |-> i2, j1 |-> j, j2 |-> j2]
         w == generate_patch(orig, new, pw, op)
     IN /\ pw' = w
        /\ runs' = Append(runs, [op |-> op, calls |-> Len(pw.log)])
        /\ pc' = IF w.exc = "none" THEN "loop" ELSE "raised"
  /\ i' = i2 /\ j' = j2
  /\ UNCHANGED <<orig, new, writers, tested, decoded, sink>>

Equal == \E i2 \in 0..MaxLen, j2 \in 0..MaxLen : Step("equal", i2, j2)
Delete == \E i2 \in 0..MaxLen : Step("delete", i2, j)
Insert == \E j2 \in 0..MaxLen : Step("insert", i, j2)
Replace == \E i2 \in 0..MaxLen, j2 \in 0..MaxLen : Step("replace", i2, j2)

\* the opcode list is exhausted: generate_patch returns and main ends
\* (line 161); nothing is written, flushed or closed after the loop.  The
\* file object is left to the runtime: a reference-counting interpreter
\* finalizes (closes) it at exit, another may leave it open and unflushed.
Return ==
  /\ pc = "loop"
  /\ i = Len(orig) /\ j = Len(new)
  /\ pc' = "done"
  /\ sink' \in {"open", "closed"}
  /\ UNCHANGED <<orig, new, i, j, pw, runs, writers, tested, decoded>>

Next == Equal \/ Delete \/ Insert \/ Replace \/ Return

Spec == Init /\ [][Next]_vars

\* ------------------------------------------------------------------------
\* SpecWriter: two PatchWriter instances, any interleaving of their calls.
Instances == {1, 2}
CallLens == {Wide(1), Wide(253)}

TotalCalls == Len(writers[1].log) + Len(writers[2].log)

InitWriter ==
  /\ writers = [self \in Instances |-> PatchWriter]
  /\ orig = <<>> /\ new = <<>> /\ i = 0 /\ j = 0
  /\ pw = PatchWriter /\ pc = "calls" /\ runs = <<>>
  /\ tested = NoLength /\ decoded = NoDecoded /\ sink = "open"

\* a call on one instance with the escape flag kept in one place for all
\* instances (a module-level flag instead of a field)
Call_shared_flag(self, after) ==
  /\ TotalCalls < MaxCalls
  /\ writers' = [x \in Instances |->
                   IF x = self THEN after
                   ELSE [writers[x] EXCEPT !._out_esc = after._out_esc]]
  /\ UNCHANGED <<orig, new, i, j, pw, pc, runs, tested, decoded, sink>>

Call(self, after) ==
  /\ TotalCalls < MaxCalls
  /\ writers' = [writers EXCEPT ![self] = after]
  /\ UNCHANGED <<orig, new, i, j, pw, pc, runs, tested, decoded, sink>>

WriteEql == \E self \in Instances, l \in CallLens :
  Call(self, write_eql(writers[self], l))
WriteDel == \E self \in Instances, l \in CallLens :
  Call(self, write_del(writers[self], l))
WriteModByte == \E self \in Instances, b \in WriterBytes :
  Call(self, write_mod_byte(writers[self], b))
WriteInsByte == \E self \in Instances, b \in WriterBytes :
  Call(self, write_ins_byte(writers[self], b))

NextWriter == WriteEql \/ WriteDel \/ WriteModByte \/ WriteInsByte

SpecWriter == InitWriter /\ [][NextWriter]_vars

\* ------------------------------------------------------------------------
\* SpecLen: _put_len on one length, then the length decoder on its output.
Pow2_32 == <<0, 0, 0, 0, 1, 0, 0, 0, 0>>
Pow2_64 == <<1, 0, 0, 0, 0, 0, 0, 0, 0>>
Max32 == <<0, 0, 0, 0, 0, 255, 255, 255, 255>>
Max64 == <<0, 255, 255, 255, 255, 255, 255, 255, 255>>

LenSamples ==
  {Wide(n) : n \in 0..MaxSmall}
  \cup {Wide(n) : n \in {251, 252, 253, 254, 507, 508, 509, 510, 65535, 65536,
                         65537, 16777215}}
  \cup {Max32, Pow2_32, Max64, Pow2_64}
  \cup {<<0, 0, 0, 0, 1, 0, 0, 0, 1>>, <<0, 0, 0, 1, 0, 0, 0, 0, 0>>,
        <<0, 1, 2, 3, 4, 5, 6, 7, 8>>, <<0, 128, 0, 0, 0, 0, 0, 0, 0>>}

InitLen ==
  /\ tested \in LenSamples
  /\ pw = PatchWriter /\ pc = "call" /\ decoded = NoDecoded
  /\ orig = <<>> /\ new = <<>> /\ i = 0 /\ j = 0 /\ runs = <<>>
  /\ writers = NoWriters /\ sink = "open"

PutLen ==
  /\ pc = "call"
  /\ LET w == _put_len(pw, tested)
     IN pw' = w /\ pc' = IF w.exc = "none" THEN "written" ELSE "raised"
  /\ UNCHANGED <<orig, new, i, j, runs, writers, tested, decoded, sink>>

GetLen ==
  /\ pc = "written"
  /\ decoded' = DecodeLen(pw.f, 1)
  /\ pc' = "read"
  /\ UNCHANGED <<orig, new, i, j, pw, runs, writers, tested, sink>>

NextLen == PutLen \/ GetLen

SpecLen == InitLen /\ [][NextLen]_vars

\* ------------------------------------------------------------------------
\* SpecByte: _put_byte on every byte value, with the flag clear and set.
\* The writer is inside write_ins_byte / write_mod_byte, ESC and the marker
\* written (lines 98-99, 103-104), either as its first call or right after
\* a write_ins_byte(ESC) that left the flag set.
Bytes == 0..255

AtPutByte(earlier, op, b) == FWrite(_put_esc(Logged(earlier, op, b)), <<op>>)

InitByte ==
  /\ tested \in Bytes
  /\ \E earlier \in {PatchWriter, write_ins_byte(PatchWriter, ESC)},
        op \in {INS, MOD} : pw = AtPutByte(earlier, op, tested)
  /\ pc = "call"
  /\ orig = <<>> /\ new = <<>> /\ i = 0 /\ j = 0 /\ runs = <<>>
  /\ writers = NoWriters /\ decoded = NoDecoded /\ sink = "open"

PutByte ==
  /\ pc = "call"
  /\ pw' = _put_byte(pw, tested)
  /\ pc' = "put"
  /\ UNCHANGED <<orig, new, i, j, runs, writers, tested, decoded, sink>>

NextByte == PutByte

SpecByte == InitByte /\ [][NextByte]_vars

\* ========================================================================
\* Properties

\* the writer calls made while run k was translated
RunLog(k) ==
  SubSeq(pw.log, runs[k].calls + 1,
         IF k < Len(runs) THEN runs[k + 1].calls ELSE Len(pw.log))

\* the bytes writer w appended during its k-th call
Appended(w, k) ==
  SubSeq(w.f, w.log[k].at + 1,
         IF k < Len(w.log) THEN w.log[k + 1].at ELSE Len(w.f))

IsData(c) == c.op = INS \/ c.op = MOD
IsLength(c) == c.op = EQL \/ c.op = DEL

RoundTrips == Decode(orig, pw.f) = [ok |-> TRUE, out |-> new]

\* C1 (round-trip): when a pass over a valid edit script of (orig, new) has
\* ended, decoding the patch against orig yields exactly new.
C1_RoundTrip == pc = "done" => RoundTrips

\* C2 (escape-tail flush): when a pass has ended, no literal ESC data byte
\* is still pending in the writer: every data byte has reached the sink.
C2_TailFlushed == pc = "done" => ~pw._out_esc

\* C3 (escape safety): a new sequence made only of 0xA7 bytes, all of them
\* written as Insert or Mod payload, decodes back to exactly those bytes.
C3_EscapeSafety ==
  ( /\ pc = "done"
    /\ new # <<>>
    /\ \A k \in DOMAIN new : new[k] = ESC
    /\ \A k \in DOMAIN pw.log : IsData(pw.log[k]) )
  => RoundTrips

\* C4 (every instruction carries its own operand): what a write_ins_byte(b)
\* or write_mod_byte(b) call appends is ESC, the marker and an escaped form
\* that decodes to b; what write_eql(L) or write_del(L) appends is ESC, the
\* marker and the encoded length L.
C4_OwnOperand ==
  \A self \in Instances :
    LET w == writers[self] IN
    \A k \in DOMAIN w.log :
      LET c == w.log[k]
          seg == Appended(w, k)
          operand == SubSeq(seg, 3, Len(seg))
      IN /\ Len(seg) >= 2 /\ seg[1] = ESC /\ seg[2] = c.op
         /\ IsData(c) =>
              DecodeByte(operand, 1) =
                [ok |-> TRUE, val |-> c.arg, next |-> Len(operand) + 1]
         /\ IsLength(c) =>
              DecodeLen(operand, 1) =
                [ok |-> TRUE, val |-> c.arg, next |-> Len(operand) + 1]

\* C5 (replace tie-break): a Replace run of k original bytes by k new bytes,
\* k > 0, makes exactly k MOD calls, one per byte of new[j1:j2] in order; a
\* Replace run of k by m bytes, k # m, both > 0, makes one DEL of length k
\* followed by m INS calls, one per byte of new[j1:j2] in order.
C5_ReplaceTieBreak ==
  \A k \in DOMAIN runs :
    LET op == runs[k].op
        d == op.i2 - op.i1
        bs == Slice(new, op.j1, op.j2)
        m == Len(bs)
        seg == RunLog(k)
    IN op.tag = "replace" =>
         /\ (d = m /\ d > 0) =>
              /\ Len(seg) = d
              /\ \A t \in 1..d : seg[t].op = MOD /\ seg[t].arg = bs[t]
         /\ (d # m /\ d > 0 /\ m > 0) =>
              /\ Len(seg) = m + 1
              /\ seg[1].op = DEL /\ seg[1].arg = Wide(d)
              /\ \A t \in 1..m : seg[t + 1].op = INS /\ seg[t + 1].arg = bs[t]

\* an unequal Replace run (2 original bytes by 1 new byte, or 1 by 2) has
\* been translated into a DEL and its INS calls
C5_Witness ==
  \E k \in DOMAIN runs :
    LET op == runs[k].op
        d == op.i2 - op.i1
        m == op.j2 - op.j1
    IN /\ op.tag = "replace" /\ d # m /\ d > 0 /\ m > 0
       /\ Len(RunLog(k)) = m + 1
       /\ RunLog(k)[1].op = DEL

\* C7 (zero-length suppression): every EQL and DEL call has a length >= 1;
\* an empty Equal or Delete run makes no call, a Replace run with no
\* original bytes makes no EQL or DEL call, and no error is raised.
C7_ZeroLengthSuppressed ==
  /\ pc # "raised"
  /\ pw.exc = "none"
  /\ \A k \in DOMAIN pw.log :
       IsLength(pw.log[k]) => pw.log[k].arg # Wide(0)
  /\ \A k \in DOMAIN runs :
       LET op == runs[k].op IN
       op.i2 = op.i1 =>
         /\ op.tag \in {"equal", "delete"} => RunLog(k) = <<>>
         /\ op.tag = "replace" =>
              \A t \in DOMAIN RunLog(k) : ~IsLength(RunLog(k)[t])

\* an empty Equal run was dropped and a later, non-empty one was written
C7_Witness ==
  /\ \E k \in DOMAIN runs :
       runs[k].op.tag = "equal" /\ runs[k].op.i2 = runs[k].op.i1
  /\ \E k \in DOMAIN pw.log : pw.log[k].op = EQL
  /\ pc = "done"

\* the edit script of (x, x): one Equal run over all of x, or no run
IdentityScript ==
  /\ orig = new
  /\ \/ runs = <<>>
     \/ /\ Len(runs) = 1
        /\ runs[1].op.tag = "equal"
        /\ runs[1].op.i1 = 0 /\ runs[1].op.i2 = Len(orig)

\* C9 (idempotent empty diff): the patch of (x, x) holds only EQL
\* instructions and decodes against x to x.
C9_IdentityDiff ==
  (pc = "done" /\ IdentityScript) =>
    /\ \A k \in DOMAIN pw.log : pw.log[k].op = EQL
    /\ \A k \in DOMAIN pw.log : Appended(pw, k)[2] = EQL
    /\ Decode(orig, pw.f) = [ok |-> TRUE, out |-> orig]

\* the identity patch of a two-byte x that contains ESC has been written
C9_Witness ==
  /\ pc = "done" /\ IdentityScript
  /\ Len(orig) >= 2
  /\ \E k \in DOMAIN orig : orig[k] = ESC
  /\ Len(pw.log) = 1

\* the encoding the length table gives for L, 1 <= L <= 2^32 - 1
InTable(L) == L # Wide(0) /\ FitsIn(L, 4)

TableBytes(L) ==
  IF FitsIn(L, 3) /\ Low24(L) <= 252 THEN <<Low24(L) - 1>>
  ELSE IF FitsIn(L, 3) /\ Low24(L) <= 508 THEN <<252, Low24(L) - 253>>
  ELSE IF FitsIn(L, 3) /\ Low24(L) <= 65535
    THEN <<253, Low24(L) \div 256, Low24(L) % 256>>
  ELSE <<254, L[6], L[7], L[8], L[9]>>

\* C6 (length tiers): for 1 <= L <= 2^32 - 1, _put_len(L) writes exactly the
\* bytes of the table (1, 2, 3 or 5 of them), raises nothing, and the bytes
\* decode back to L; 252, 253, 508, 509, 65535, 65536 take 1, 2, 2, 3, 3, 5.
C6_LengthTiers ==
  (pc \in {"written", "read", "raised"} /\ InTable(tested)) =>
    /\ pc # "raised"
    /\ pw.f = TableBytes(tested)
    /\ tested = Wide(252) => Len(pw.f) = 1
    /\ tested = Wide(253) => Len(pw.f) = 2
    /\ tested = Wide(508) => Len(pw.f) = 2
    /\ tested = Wide(509) => Len(pw.f) = 3
    /\ tested = Wide(65535) => Len(pw.f) = 3
    /\ tested = Wide(65536) => Len(pw.f) = 5
    /\ pc = "read" =>
         decoded = [ok |-> TRUE, val |-> tested, next |-> Len(pw.f) + 1]

\* the length 253, first of the two-byte tier, was written and read back
C6_Witness ==
  /\ pc = "read" /\ tested = Wide(253)
  /\ pw.f = <<252, 0>>
  /\ decoded.ok

\* C8 (marker framing): the stream of a writer is its instructions one
\* after the other, each beginning with ESC immediately followed by its
\* marker EQL, DEL, INS or MOD, never BKT.
C8_MarkerFraming ==
  \A self \in Instances :
    LET w == writers[self] IN
    /\ w.log = <<>> => w.f = <<>>
    /\ w.log # <<>> => w.log[1].at = 0
    /\ \A k \in DOMAIN w.log :
         LET at == w.log[k].at IN
         /\ at + 2 <= Len(w.f)
         /\ w.f[at + 1] = ESC
         /\ w.f[at + 2] = w.log[k].op
         /\ w.f[at + 2] \in {EQL, DEL, INS, MOD}
         /\ w.f[at + 2] # BKT

\* a data instruction was written while a literal ESC was pending, its
\* payload being a marker value
C8_Witness ==
  \E self \in Instances :
    LET w == writers[self] IN
    /\ Len(w.log) >= 2
    /\ IsData(w.log[1]) /\ w.log[1].arg = ESC
    /\ w.log[2].op = INS /\ w.log[2].arg = BKT

ApplyCall(w, c) ==
  IF c.op = EQL THEN write_eql(w, c.arg)
  ELSE IF c.op = DEL THEN write_del(w, c.arg)
  ELSE IF c.op = MOD THEN write_mod_byte(w, c.arg)
  ELSE write_ins_byte(w, c.arg)

RECURSIVE Replay(_, _)
\* the writer that results from making the calls on a fresh PatchWriter
Replay(w, calls) ==
  IF calls = <<>> THEN w
  ELSE Replay(ApplyCall(w, [op |-> Head(calls).op, arg |-> Head(calls).arg]),
              Tail(calls))

\* C10 (escape-state isolation): each instance starts with the flag false
\* and, whatever the interleaving with the other instance's calls, holds the
\* bytes and the flag that its own call sequence gives when run alone.
C10_Isolation ==
  \A self \in Instances :
    LET w == writers[self]
        alone == Replay(PatchWriter, w.log)
    IN /\ w.log = <<>> => ~w._out_esc
       /\ w.f = alone.f
       /\ w._out_esc = alone._out_esc

\* instance 1 has a literal ESC pending while instance 2 has written an
\* ordinary data byte unescaped
C10_Witness ==
  /\ writers[1]._out_esc
  /\ ~writers[2]._out_esc
  /\ Len(writers[2].log) >= 1
  /\ Appended(writers[2], 1) = <<ESC, INS, 65>>

\* a length _put_len can encode: 1 <= L <= 2^64 - 1
Encodable(L) == L # Wide(0) /\ L[1] = 0

\* C11 (encoding never fails on valid input): whatever the byte sequences
\* and the valid run sequence, no call raises, the pass is never in an error
\* state, and every length handed to _put_len is one it can encode (never 0).
C11_NeverFails ==
  /\ pc \in {"loop", "done"}
  /\ pw.exc = "none"
  /\ \A k \in DOMAIN pw.log : IsLength(pw.log[k]) => Encodable(pw.log[k].arg)

\* a pass with an empty Delete run and a written DEL has run to completion
C11_Witness ==
  /\ pc = "done"
  /\ \E k \in DOMAIN runs :
       runs[k].op.tag = "delete" /\ runs[k].op.i2 = runs[k].op.i1
  /\ \E k \in DOMAIN pw.log : pw.log[k].op = DEL

\* what the length claim says of one tested length L: _put_len raises
\* nothing, the bytes decode back to exactly L, and L >= 2^32 is written as
\* 255 followed by the eight big-endian bytes of L
LengthRoundTrips(L) ==
  /\ pc # "raised"
  /\ ~FitsIn(L, 4) => pw.f = <<255>> \o SubSeq(L, 2, 9)
  /\ pc = "read" =>
       decoded = [ok |-> TRUE, val |-> L, next |-> Len(pw.f) + 1]

Called == pc \in {"written", "read", "raised"}

\* C12 as stated: every length 1 <= L <= 2^64, both ends included,
\* round-trips.
C12_UpTo2Pow64 ==
  (Called /\ tested # Wide(0) /\ (tested[1] = 0 \/ tested = Pow2_64)) =>
    LengthRoundTrips(tested)

\* C12 (amended): every length 1 <= L <= 2^64 - 1 is encoded by _put_len
\* into bytes that decode back to exactly L, those >= 2^32 in the 9-byte
\* form 255 followed by big-endian 64-bit L; _put_len(2^64) raises
\* OverflowError and writes nothing.
C12_LengthRoundTrip ==
  /\ (Called /\ Encodable(tested)) => LengthRoundTrips(tested)
  /\ (Called /\ tested = Pow2_64) =>
       pc = "raised" /\ pw.exc = "OverflowError" /\ pw.f = <<>>

\* the largest length, 2^64 - 1, was written in nine bytes and read back
C12_Witness ==
  /\ pc = "read" /\ tested = Max64
  /\ pw.f = <<255, 255, 255, 255, 255, 255, 255, 255, 255>>
  /\ decoded.val = Max64

\* what the escaper algorithm emits for byte b when the flag is esc
Escaper(b, esc) ==
  (IF esc THEN (IF b \in BKT..ESC THEN <<ESC>> ELSE <<>>) \o <<ESC>>
          ELSE <<>>)
  \o (IF b = ESC THEN <<>> ELSE <<b>>)

\* C13 (_put_byte follows the escaper algorithm): for every byte b and both
\* values of the flag, _put_byte appends, when the flag is set, one extra
\* ESC if b is in 0xA2..0xA7 and then one ESC; then b itself unless b is
\* 0xA7; the flag afterwards is set exactly when b is 0xA7.
C13_Escaper ==
  pc = "put" =>
    LET c == pw.log[Len(pw.log)]
    IN /\ SubSeq(pw.f, c.at + 3, Len(pw.f)) = Escaper(tested, c.esc)
       /\ SubSeq(pw.f, c.at + 1, c.at + 2) = <<ESC, c.op>>
       /\ c.esc => SubSeq(pw.f, 1, c.at) = <<ESC, INS>>
       /\ ~c.esc => c.at = 0
       /\ pw._out_esc = (tested = ESC)

\* the byte 0xA2 was written while a literal ESC was pending: two ESC bytes,
\* then 0xA2, and the flag is clear
C13_Witness ==
  /\ pc = "put" /\ tested = BKT
  /\ pw.log[Len(pw.log)].esc
  /\ SubSeq(pw.f, Len(pw.f) - 2, Len(pw.f)) = <<ESC, ESC, BKT>>
  /\ ~pw._out_esc

\* the instructions the translation rules give for one run
Instr(op, arg) == [op |-> op, arg |-> arg]

PerByte(marker, bs) == [t \in 1..Len(bs) |-> Instr(marker, bs[t])]

InstrsOf(op) ==
  LET d == op.i2 - op.i1
      bs == Slice(new, op.j1, op.j2)
  IN IF op.tag = "equal" THEN (IF d > 0 THEN <<Instr(EQL, Wide(d))>> ELSE <<>>)
     ELSE IF op.tag = "delete" THEN (IF d > 0 THEN <<Instr(DEL, Wide(d))>> ELSE <<>>)
     ELSE IF op.tag = "insert" THEN PerByte(INS, bs)
     ELSE IF d = Len(bs) /\ d > 0 THEN PerByte(MOD, bs)
     ELSE (IF d > 0 THEN <<Instr(DEL, Wide(d))>> ELSE <<>>) \o PerByte(INS, bs)

RECURSIVE InstrsUpTo(_)
\* the instructions of runs 1..k, concatenated in run order
InstrsUpTo(k) ==
  IF k = 0 THEN <<>> ELSE InstrsUpTo(k - 1) \o InstrsOf(runs[k].op)

SameInstrs(calls, instrs) ==
  /\ Len(calls) = Len(instrs)
  /\ \A t \in DOMAIN calls :
       calls[t].op = instrs[t].op /\ calls[t].arg = instrs[t].arg

\* C14 (run-order translation): the instructions in the stream are, in
\* stream order, the instructions of run 1, then of run 2, and so on; the
\* payload bytes of an Insert or Replace run appear in the order of
\* new[j1:j2], and the DEL of an unequal Replace before that run's INS.
C14_RunOrder ==
  /\ SameInstrs(pw.log, InstrsUpTo(Len(runs)))
  /\ \A k \in DOMAIN runs : SameInstrs(RunLog(k), InstrsOf(runs[k].op))
  /\ \A t \in DOMAIN pw.log :
       /\ pw.f[pw.log[t].at + 2] = pw.log[t].op
       /\ t > 1 => pw.log[t - 1].at < pw.log[t].at

\* a Delete run and then an Insert run of two different bytes were written:
\* DEL, INS new[0], INS new[1]
C14_Witness ==
  /\ Len(runs) = 2 /\ Len(pw.log) = 3
  /\ runs[1].op.tag = "delete" /\ runs[2].op.tag = "insert"
  /\ pw.log[1].op = DEL
  /\ new[1] # new[2]
  /\ pw.log[2].arg = new[1] /\ pw.log[3].arg = new[2]

\* C15 (scoped sink): on every exit path of an encode pass, normal return or
\* error, the sink has been flushed and released: no pass ends with the
\* sink still open.
C15_SinkReleased == pc \in {"done", "raised"} => sink = "closed"

RECURSIVE SumLen(_, _)
\* the sum of the lengths of the instructions of kind marker in a call log
SumLen(log, marker) ==
  IF log = <<>> THEN 0
  ELSE (IF Head(log).op = marker THEN Low24(Head(log).arg) ELSE 0)
       + SumLen(Tail(log), marker)

\* the number of instructions of kind marker in a call log
Count(log, marker) == Cardinality({t \in DOMAIN log : log[t].op = marker})

\* C16 (cursor accounting): the instructions written for the runs consumed
\* so far cover exactly the consumed part of each axis, and at the end of a
\* pass EQL lengths + DEL lengths + MODs = len(orig) and EQL lengths + INSs
\* + MODs = len(new).
C16_CursorAccounting ==
  LET onOrig == SumLen(pw.log, EQL) + SumLen(pw.log, DEL) + Count(pw.log, MOD)
      onNew == SumLen(pw.log, EQL) + Count(pw.log, INS) + Count(pw.log, MOD)
  IN /\ onOrig = i /\ onNew = j
     /\ pc = "done" => onOrig = Len(orig) /\ onNew = Len(new)

\* a finished pass over two original and at least one new byte that wrote
\* both a MOD and a DEL
C16_Witness ==
  /\ pc = "done"
  /\ Len(orig) = 2 /\ Len(new) >= 1
  /\ Count(pw.log, MOD) >= 1
  /\ Count(pw.log, DEL) >= 1

\* the flag of writer w when its k-th call returned
FlagAfter(w, k) == IF k < Len(w.log) THEN w.log[k + 1].esc ELSE w._out_esc

\* C17 (frame of length instructions): write_eql(L) and write_del(L) append
\* exactly ESC, the marker and the encoded length, and leave the escape flag
\* as it was, set or clear: a pending data ESC is neither emitted nor
\* cleared by them.
C17_LengthFrame ==
  \A self \in Instances :
    LET w == writers[self] IN
    \A k \in DOMAIN w.log :
      LET c == w.log[k] IN
      IsLength(c) =>
        /\ Appended(w, k) = <<ESC, c.op>> \o TableBytes(c.arg)
        /\ FlagAfter(w, k) = c.esc

\* a DEL was written while a literal ESC was pending, and it still is
C17_Witness ==
  \E self \in Instances :
    LET w == writers[self] IN
    /\ Len(w.log) = 2
    /\ IsData(w.log[1]) /\ w.log[1].arg = ESC
    /\ w.log[2].op = DEL /\ w.log[2].esc
    /\ w._out_esc

\* the calls of writer w that carry a data byte
DataCalls(w) == {k \in DOMAIN w.log : IsData(w.log[k])}

\* the data bytes the k-th call put into the sink: what it appended after
\* ESC and the marker, less the disambiguating extra ESC
WrittenBy(w, k) ==
  Len(Appended(w, k)) - 2
  - (IF w.log[k].esc /\ w.log[k].arg \in BKT..ESC THEN 1 ELSE 0)

RECURSIVE WrittenUpTo(_, _)
WrittenUpTo(w, k) ==
  IF k = 0 THEN 0
  ELSE WrittenUpTo(w, k - 1) + (IF IsData(w.log[k]) THEN WrittenBy(w, k) ELSE 0)

\* C18 (pending-byte invariant): the flag is set exactly when the most
\* recent data byte given to write_ins_byte / write_mod_byte was 0xA7 (clear
\* if there was none); the data bytes accepted but not yet in the sink are
\* none when the flag is clear and one, that 0xA7, when it is set.
C18_PendingByte ==
  \A self \in Instances :
    LET w == writers[self]
        data == DataCalls(w)
        last == CHOOSE k \in data : \A m \in data : m <= k
        pending == Cardinality(data) - WrittenUpTo(w, Len(w.log))
    IN /\ w._out_esc = (data # {} /\ w.log[last].arg = ESC)
       /\ pending = (IF w._out_esc THEN 1 ELSE 0)
       /\ \A k \in data :
            w.log[k].arg # ESC =>
              Appended(w, k)[Len(Appended(w, k))] = w.log[k].arg

\* a literal ESC was pending and the next data byte, an ordinary one,
\* resolved it: ESC and the byte are in the sink and the flag is clear
C18_Witness ==
  \E self \in Instances :
    LET w == writers[self] IN
    /\ Len(w.log) >= 2
    /\ IsData(w.log[1]) /\ w.log[1].arg = ESC
    /\ Appended(w, 2) = <<ESC, INS, ESC, 65>>
    /\ ~w._out_esc

====
